---- MODULE Spec2Model ----
(***************************************************************************)
(* Model of nmigen/fhdl/ast.py: the Value hierarchy (Const, Signal,        *)
(* Operator, Slice, Part, Cat, Repl), the statements (Assign, Switch) and  *)
(* the structural key layer (ValueKey).                                    *)
(*                                                                         *)
(* A Python object is a record of one uniform shape; `kind` is its type.   *)
(* A method that can raise returns [err, val]: err = "" on a normal        *)
(* return, else the name of the exception raised.                          *)
(***************************************************************************)
EXTENDS Integers, Sequences, FiniteSets, TLC

VARIABLES next_uid, signals, result

vars == <<next_uid, signals, result>>

\* Largest explicit width given to a Const or a Signal.
MaxWidth == 2

\* Cap on the number of identifiers DUID hands out.
MaxUid == 3

\* Number of Signal objects alive at once (and of addresses id() can return).
MaxSignals == 2

----------------------------------------------------------------------------
(* Python objects *)

Blank ==
    [kind |-> "NoneType", op |-> "", operands |-> <<>>, value |-> 0,
     nbits |-> 0, signed |-> FALSE, start |-> 0, end |-> 0, width |-> 0,
     count |-> 0, duid |-> 0, id |-> 0, chars |-> <<>>, cases |-> <<>>,
     reset |-> 0, reset_kind |-> "int", reset_less |-> FALSE, attrs |-> <<>>]

PyNone == Blank

PyInt(i) == [Blank EXCEPT !.kind = "int", !.value = i]

PyBool(b) == [Blank EXCEPT !.kind = "bool", !.value = IF b THEN 1 ELSE 0]

\* a (bits, signed) pair passed as bits_sign
PyTuple(n, s) == [Blank EXCEPT !.kind = "tuple", !.nbits = n, !.signed = s]

\* a str, as the sequence of its characters
PyStr(cs) == [Blank EXCEPT !.kind = "str", !.chars = cs]

\* slice(a, b, step): a, b and step are ints or None
PySlice(a, b, step) == [Blank EXCEPT !.kind = "slice", !.operands = <<a, b, step>>]

ValueKinds == {"Const", "Signal", "Operator", "Slice", "Part", "Cat", "Repl"}

\* isinstance(obj, Value)
IsValue(obj) == obj.kind \in ValueKinds

\* isinstance(obj, int): bool is a subclass of int
IsInt(obj) == obj.kind \in {"int", "bool"}

Ok(v) == [err |-> "", val |-> v]

Raise(e) == [err |-> e, val |-> Blank]

Max(a, b) == IF a >= b THEN a ELSE b

RECURSIVE bit_length(_)
\* int.bit_length(): the number of bits of abs(n)
bit_length(n) ==
    IF n < 0 THEN bit_length(-n)
    ELSE IF n = 0 THEN 0
    ELSE 1 + bit_length(n \div 2)

\* the error of the first element that raised, "" when none did
FirstErr(rs) ==
    IF \E i \in DOMAIN rs : rs[i].err # ""
    THEN rs[CHOOSE i \in DOMAIN rs :
                rs[i].err # "" /\ \A j \in DOMAIN rs : j < i => rs[j].err = ""].err
    ELSE ""

----------------------------------------------------------------------------
(* Const, Value.wrap, Operator *)

\* Const.__init__(value, bits_sign)
Const(value, bits_sign) ==
    LET bs == IF bits_sign.kind = "NoneType"
              THEN <<bit_length(value), value < 0>>
              ELSE IF IsInt(bits_sign)
              THEN <<bits_sign.value, value < 0>>
              ELSE <<bits_sign.nbits, bits_sign.signed>>
    IN  IF bs[1] < 0
        THEN Raise("TypeError")
        ELSE Ok([Blank EXCEPT !.kind = "Const", !.value = value,
                              !.nbits = bs[1], !.signed = bs[2]])

\* Value.wrap(obj)
wrap(obj) ==
    IF IsValue(obj) THEN Ok(obj)
    ELSE IF IsInt(obj) THEN Const(obj.value, PyNone)
    ELSE Raise("TypeError")

\* [Value.wrap(o) for o in operands]
WrapAll(operands) == [i \in DOMAIN operands |-> wrap(operands[i])]

\* Operator.__init__(op, operands)
Operator(op, operands) ==
    LET ws == WrapAll(operands)
    IN  IF FirstErr(ws) # ""
        THEN Raise(FirstErr(ws))
        ELSE Ok([Blank EXCEPT !.kind = "Operator", !.op = op,
                              !.operands = [i \in DOMAIN ws |-> ws[i].val]])

\* Mux(sel, val1, val0)
Mux(sel, val1, val0) == Operator("m", <<sel, val1, val0>>)

----------------------------------------------------------------------------
(* bits_sign *)

\* the same with the sign bit of an unsigned first operand forgotten
_bitwise_binary_bits_sign_nosignbit(a, b) ==
    IF ~a[2] /\ ~b[2] THEN <<Max(a[1], b[1]), FALSE>>
    ELSE IF a[2] /\ b[2] THEN <<Max(a[1], b[1]), TRUE>>
    ELSE IF ~a[2] /\ b[2] THEN <<Max(a[1], b[1]), TRUE>>
    ELSE <<Max(a[1], b[1] + 1), TRUE>>

\* Operator._bitwise_binary_bits_sign(a, b)
_bitwise_binary_bits_sign(a, b) ==
    IF ~a[2] /\ ~b[2] THEN <<Max(a[1], b[1]), FALSE>>
    ELSE IF a[2] /\ b[2] THEN <<Max(a[1], b[1]), TRUE>>
    ELSE IF ~a[2] /\ b[2] THEN <<Max(a[1] + 1, b[1]), TRUE>>
    ELSE <<Max(a[1], b[1] + 1), TRUE>>

\* Operator.bits_sign once the operands' shapes obs are known
Operator_bits_sign(op, obs) ==
    IF op = "+" \/ op = "-" THEN
        IF Len(obs) = 1 THEN
            IF op = "-" /\ ~obs[1][2]
            THEN Ok(<<obs[1][1] + 1, TRUE>>)
            ELSE Ok(obs[1])
        ELSE IF Len(obs) # 2 THEN Raise("TypeError")
        ELSE LET ns == _bitwise_binary_bits_sign(obs[1], obs[2])
             IN  Ok(<<ns[1] + 1, ns[2]>>)
    ELSE IF op = "*" THEN
        IF Len(obs) < 2 THEN Raise("IndexError")
        ELSE IF ~obs[1][2] /\ ~obs[2][2] THEN Ok(<<obs[1][1] + obs[2][1], FALSE>>)
        ELSE IF obs[1][2] /\ obs[2][2] THEN Ok(<<obs[1][1] + obs[2][1] - 1, TRUE>>)
        ELSE Ok(<<obs[1][1] + obs[2][1] + 1 - 1, TRUE>>)
    ELSE IF op = "&" \/ op = "^" \/ op = "|" THEN
        IF Len(obs) # 2 THEN Raise("TypeError")
        ELSE Ok(_bitwise_binary_bits_sign(obs[1], obs[2]))
    ELSE IF op \in {"<", "<=", "==", "!=", ">", ">="} THEN Ok(<<1, FALSE>>)
    ELSE IF op = "~" THEN Ok(obs[1])
    ELSE IF op = "m" THEN Raise("NameError")
    ELSE Raise("TypeError")

RECURSIVE bits_sign(_)
\* v.bits_sign() for every variant; len(op) is op.bits_sign()[0] passed
\* through len(), which rejects a negative __len__ with ValueError
bits_sign(v) ==
    IF v.kind \in {"Const", "Signal"} THEN Ok(<<v.nbits, v.signed>>)
    ELSE IF v.kind = "Operator" THEN
        LET rs == [i \in DOMAIN v.operands |-> bits_sign(v.operands[i])]
        IN  IF FirstErr(rs) # "" THEN Raise(FirstErr(rs))
            ELSE Operator_bits_sign(v.op, [i \in DOMAIN rs |-> rs[i].val])
    ELSE IF v.kind = "Slice" THEN Ok(<<v.end - v.start, FALSE>>)
    ELSE IF v.kind = "Part" THEN Ok(<<v.width, FALSE>>)
    ELSE IF v.kind = "Cat" THEN
        LET rs == [i \in DOMAIN v.operands |->
                      LET r == bits_sign(v.operands[i])
                      IN  IF r.err # "" THEN r
                          ELSE IF r.val[1] < 0 THEN Raise("ValueError")
                          ELSE r]
            RECURSIVE Sum(_)
            Sum(i) == IF i = 0 THEN 0 ELSE rs[i].val[1] + Sum(i - 1)
        IN  IF FirstErr(rs) # "" THEN Raise(FirstErr(rs))
            ELSE Ok(<<Sum(Len(v.operands)), FALSE>>)
    ELSE IF v.kind = "Repl" THEN
        LET r == bits_sign(v.operands[1])
        IN  IF r.err # "" THEN r
            ELSE IF r.val[1] < 0 THEN Raise("ValueError")
            ELSE Ok(<<r.val[1] * v.count, FALSE>>)
    ELSE Raise("TypeError")

\* len(obj): Value.__len__ behind Python's len()
len(obj) ==
    IF ~IsValue(obj) THEN Raise("TypeError")
    ELSE LET r == bits_sign(obj)
         IN  IF r.err # "" THEN r
             ELSE IF r.val[1] < 0 THEN Raise("ValueError")
             ELSE Ok(r.val[1])

----------------------------------------------------------------------------
(* Slice, Value.__getitem__, Part, Cat, Repl *)

\* Slice.__init__(value, start, end)
Slice(value, start, end) ==
    IF ~IsInt(start) THEN Raise("TypeError")
    ELSE IF ~IsInt(end) THEN Raise("TypeError")
    ELSE LET ln == len(value)
         IN  IF ln.err # "" THEN ln
             ELSE LET n == ln.val
                      s == start.value
                      e == end.value
                  IN  IF ~(s >= -n /\ s < n) THEN Raise("IndexError")
                      ELSE IF ~(e >= -(n + 1) /\ e < n + 1) THEN Raise("IndexError")
                      ELSE LET w == wrap(value)
                           IN  IF w.err # "" THEN w
                               ELSE Ok([Blank EXCEPT
                                          !.kind = "Slice",
                                          !.operands = <<w.val>>,
                                          !.start = IF s < 0 THEN s + n ELSE s,
                                          !.end = IF e < 0 THEN e + n ELSE e])

\* Cat.__init__(*args): args is the flat sequence flatten(args) yields
Cat(args) ==
    LET ws == WrapAll(args)
    IN  IF FirstErr(ws) # "" THEN Raise(FirstErr(ws))
        ELSE Ok([Blank EXCEPT !.kind = "Cat",
                              !.operands = [i \in DOMAIN ws |-> ws[i].val]])

\* slice.indices(n)[0] and [1] for a positive step: one bound b of
\* slice(a, b, step), clamped into 0..n; dflt is its value when b is None
SliceBound(b, n, dflt) ==
    IF b.kind = "NoneType" THEN dflt
    ELSE IF b.value < 0 THEN Max(b.value + n, 0)
    ELSE IF b.value > n THEN n
    ELSE b.value

\* the elements of range(start, stop, step), step > 0
RangeSeq(start, stop, step) ==
    LET cnt == IF stop <= start THEN 0 ELSE ((stop - start - 1) \div step) + 1
    IN  [i \in 1..cnt |-> start + (i - 1) * step]

\* Value.__getitem__(self, key)
Value__getitem__(self, key) ==
    LET ln == len(self)
    IN  IF ln.err # "" THEN ln
        ELSE LET n == ln.val
             IN  IF IsInt(key) THEN
                     IF ~(key.value >= -n /\ key.value < n) THEN Raise("IndexError")
                     ELSE LET k == IF key.value < 0 THEN key.value + n ELSE key.value
                          IN  Slice(self, PyInt(k), PyInt(k + 1))
                 ELSE IF key.kind = "slice" THEN
                     LET start == SliceBound(key.operands[1], n, 0)
                         stop  == SliceBound(key.operands[2], n, n)
                         step  == IF key.operands[3].kind = "NoneType" THEN 1
                                  ELSE key.operands[3].value
                     IN  IF step # 1
                         THEN LET idx  == RangeSeq(start, stop, step)
                                  bits == [i \in DOMAIN idx |->
                                             Slice(self, PyInt(idx[i]), PyInt(idx[i] + 1))]
                              IN  IF FirstErr(bits) # "" THEN Raise(FirstErr(bits))
                                  ELSE Cat([i \in DOMAIN bits |-> bits[i].val])
                         ELSE Slice(self, PyInt(start), PyInt(stop))
                 ELSE Raise("TypeError")

\* Part.__init__(value, offset, width): value is stored as given
Part(value, offset, width) ==
    IF ~IsInt(width) \/ width.value < 0 THEN Raise("TypeError")
    ELSE LET w == wrap(offset)
         IN  IF w.err # "" THEN w
             ELSE Ok([Blank EXCEPT !.kind = "Part", !.operands = <<value, w.val>>,
                                   !.width = width.value])

\* Repl.__init__(value, count)
Repl(value, count) ==
    IF ~IsInt(count) \/ count.value < 0 THEN Raise("TypeError")
    ELSE LET w == wrap(value)
         IN  IF w.err # "" THEN w
             ELSE Ok([Blank EXCEPT !.kind = "Repl", !.operands = <<w.val>>,
                                   !.count = count.value])

----------------------------------------------------------------------------
(* Signal *)

\* tools.bits_for(n, require_sign_bit): the minimum width that holds n
bits_for(n, require_sign_bit) ==
    IF n > 0
    THEN bit_length(n) + (IF require_sign_bit THEN 1 ELSE 0)
    ELSE (IF n = 0 THEN 0 ELSE bit_length(-n - 1)) + 1

\* Signal.__init__(bits_sign=shape, min=min, max=max), after DUID.__init__
\* gave it duid; id is the address of the new object
Signal(shape, min, max, duid, id) ==
    LET new == [Blank EXCEPT !.kind = "Signal", !.duid = duid, !.id = id]
    IN  IF shape.kind = "NoneType" THEN
            LET lo == IF min.kind = "NoneType" THEN 0 ELSE min.value
                hi == (IF max.kind = "NoneType" THEN 2 ELSE max.value) - 1
                sg == lo < 0 \/ hi < 0
            IN  IF ~(lo < hi) THEN Raise("ValueError")
                ELSE Ok([new EXCEPT !.signed = sg,
                                    !.nbits = Max(bits_for(lo, sg), bits_for(hi, sg))])
        ELSE IF IsInt(shape) THEN
            IF ~(min.kind = "NoneType" \/ max.kind = "NoneType") THEN Raise("ValueError")
            ELSE IF shape.value < 0 THEN Raise("TypeError")
            ELSE Ok([new EXCEPT !.nbits = shape.value, !.signed = FALSE])
        ELSE IF shape.nbits < 0 THEN Raise("TypeError")
        ELSE Ok([new EXCEPT !.nbits = shape.nbits, !.signed = shape.signed])

\* Signal.__init__(bits_sign=shape, reset=reset, reset_less=reset_less,
\* attrs=attrs): reset is stored as given, an int or an object with a
\* value; attrs are held as the sequence of their names
Signal_kw(shape, reset, reset_less, attrs, duid, id) ==
    LET sig == Signal(shape, PyNone, PyNone, duid, id)
    IN  IF sig.err # "" THEN sig
        ELSE Ok([sig.val EXCEPT !.reset = reset.value, !.reset_kind = reset.kind,
                                !.reset_less = reset_less, !.attrs = attrs])

\* a dict of keyword arguments, as the sequence of its (name, value) items
PyDict(items) == [Blank EXCEPT !.kind = "dict", !.cases = items]

\* name in kwargs
KwHas(kwargs, name) == \E i \in DOMAIN kwargs.cases : kwargs.cases[i][1] = name

\* kwargs[name]
KwGet(kwargs, name) ==
    kwargs.cases[CHOOSE i \in DOMAIN kwargs.cases : kwargs.cases[i][1] = name][2]

\* Signal.like up to the call of cls(**kw): the kw built, or the exception
Signal_like_kw(other, kwargs) ==
    LET w  == wrap(other)
        bs == bits_sign(w.val)
        cloned == other.kind = "Signal"
    IN  IF w.err # "" THEN w
        ELSE IF bs.err # "" THEN bs
        ELSE IF cloned /\ other.reset_kind = "int" THEN Raise("AttributeError")
        ELSE Ok([bits_sign  |-> IF KwHas(kwargs, "bits_sign") THEN KwGet(kwargs, "bits_sign")
                                ELSE PyTuple(bs.val[1], bs.val[2]),
                 reset      |-> IF KwHas(kwargs, "reset") THEN KwGet(kwargs, "reset")
                                ELSE IF cloned THEN PyInt(other.reset) ELSE PyInt(0),
                 reset_less |-> IF KwHas(kwargs, "reset_less")
                                THEN KwGet(kwargs, "reset_less").value = 1
                                ELSE IF cloned THEN other.reset_less ELSE FALSE,
                 attrs      |-> IF cloned THEN other.attrs ELSE <<>>])

\* Signal.like(other, **kwargs); duid and id are those of the new Signal
Signal_like(other, kwargs, duid, id) ==
    LET kw == Signal_like_kw(other, kwargs)
    IN  IF kw.err # "" THEN kw
        ELSE Signal_kw(kw.val.bits_sign, kw.val.reset, kw.val.reset_less,
                       kw.val.attrs, duid, id)

----------------------------------------------------------------------------
(* _rhs_signals, _lhs_signals *)

\* tools.union(sets): the union of the sets
union(sets) == UNION {sets[i] : i \in DOMAIN sets}

RECURSIVE _rhs_signals(_)
\* v._rhs_signals() for every variant; a ValueSet of Signals is the set of
\* the Signal objects it holds
_rhs_signals(v) ==
    IF v.kind = "Const" THEN Ok({})
    ELSE IF v.kind = "Signal" THEN Ok({v})
    ELSE IF v.kind \in {"Operator", "Cat"} THEN
        LET rs == [i \in DOMAIN v.operands |-> _rhs_signals(v.operands[i])]
        IN  IF FirstErr(rs) # "" THEN Raise(FirstErr(rs))
            ELSE Ok(union([i \in DOMAIN rs |-> rs[i].val]))
    ELSE IF v.kind \in {"Slice", "Part"} THEN
        IF IsValue(v.operands[1]) THEN _rhs_signals(v.operands[1])
        ELSE Raise("AttributeError")
    ELSE IF v.kind = "Repl" THEN Raise("NameError")
    ELSE Raise("AttributeError")

RECURSIVE _lhs_signals_repl(_)
\* the same with Repl made assignable through its value
_lhs_signals_repl(v) ==
    IF v.kind = "Signal" THEN Ok({v})
    ELSE IF v.kind \in {"Slice", "Part", "Repl"} THEN
        IF IsValue(v.operands[1]) THEN _lhs_signals_repl(v.operands[1])
        ELSE Raise("AttributeError")
    ELSE IF v.kind = "Cat" THEN
        LET rs == [i \in DOMAIN v.operands |-> _lhs_signals_repl(v.operands[i])]
        IN  IF FirstErr(rs) # "" THEN Raise(FirstErr(rs))
            ELSE Ok(union([i \in DOMAIN rs |-> rs[i].val]))
    ELSE IF IsValue(v) THEN Raise("TypeError")
    ELSE Raise("AttributeError")

RECURSIVE _lhs_signals(_)
\* v._lhs_signals() for every variant
_lhs_signals(v) ==
    IF v.kind = "Signal" THEN Ok({v})
    ELSE IF v.kind \in {"Slice", "Part"} THEN
        IF IsValue(v.operands[1]) THEN _lhs_signals(v.operands[1])
        ELSE Raise("AttributeError")
    ELSE IF v.kind = "Cat" THEN
        LET rs == [i \in DOMAIN v.operands |-> _lhs_signals(v.operands[i])]
        IN  IF FirstErr(rs) # "" THEN Raise(FirstErr(rs))
            ELSE Ok(union([i \in DOMAIN rs |-> rs[i].val]))
    ELSE IF IsValue(v) THEN Raise("TypeError")
    ELSE Raise("AttributeError")

----------------------------------------------------------------------------
(* ==, bool() *)

\* Value.bool(self)
Value_bool(self) == Operator("b", <<self>>)

\* Value.__eq__(self, other)
Value__eq__(self, other) == Operator("==", <<self, other>>)

\* Value.__lt__(self, other)
Value__lt__(self, other) == Operator("<", <<self, other>>)

\* does other have an attribute named value
HasValueAttr(other) == other.kind \in {"Const", "Slice", "Part", "Repl"}

\* Const.__eq__ with the width compared as well as the value
Const__eq__width(self, other) ==
    IF ~HasValueAttr(other) THEN Raise("AttributeError")
    ELSE IF other.kind = "Const"
    THEN Ok(PyBool(self.value = other.value /\ self.nbits = other.nbits))
    ELSE LET ov == other.operands[1]
         IN  IF IsInt(ov) THEN Ok(PyBool(self.value = ov.value))
             ELSE IF ov.kind = "Const" THEN Raise("AttributeError")
             ELSE Value__eq__(ov, PyInt(self.value))

\* Const.__eq__(self, other): self.value == other.value.  self.value is an
\* int; when other.value is not one, int.__eq__ returns NotImplemented and
\* Python calls the reflected other.value.__eq__(self.value)
Const__eq__(self, other) ==
    IF ~HasValueAttr(other) THEN Raise("AttributeError")
    ELSE IF other.kind = "Const" THEN Ok(PyBool(self.value = other.value))
    ELSE LET ov == other.operands[1]
         IN  IF IsInt(ov) THEN Ok(PyBool(self.value = ov.value))
             ELSE IF ov.kind = "Const" THEN Raise("AttributeError")
             ELSE Value__eq__(ov, PyInt(self.value))

\* a == b, dispatched on type(a)
py_eq(a, b) == IF a.kind = "Const" THEN Const__eq__(a, b) ELSE Value__eq__(a, b)

\* Value.__bool__(self)
Value__bool__(self) ==
    IF self.kind = "Operator" /\ self.op = "==" THEN
        LET a == self.operands[1]
            b == self.operands[2]
        IN  IF a.kind = "Const" /\ b.kind = "Const" THEN Ok(a.value = b.value)
            ELSE IF a.kind = "Signal" /\ b.kind = "Signal" THEN Ok(a.id = b.id)
            ELSE IF \/ a.kind = "Const" /\ b.kind = "Signal"
                    \/ a.kind = "Signal" /\ b.kind = "Const" THEN Ok(FALSE)
            ELSE Raise("TypeError")
    ELSE Raise("TypeError")

\* bool(obj)
py_bool(obj) ==
    IF obj.kind = "bool" THEN Ok(obj.value = 1)
    ELSE IF IsValue(obj) THEN Value__bool__(obj)
    ELSE Raise("TypeError")

----------------------------------------------------------------------------
(* Statements *)

\* Assign.__init__(lhs, rhs)
Assign(lhs, rhs) ==
    LET l == wrap(lhs)
        r == wrap(rhs)
    IN  IF l.err # "" THEN l
        ELSE IF r.err # "" THEN r
        ELSE Ok([Blank EXCEPT !.kind = "Assign", !.operands = <<l.val, r.val>>])

\* Assign._lhs_signals(self)
Assign_lhs_signals(self) == _lhs_signals(self.operands[1])

\* Assign._rhs_signals(self)
Assign_rhs_signals(self) == _rhs_signals(self.operands[2])

\* a list object
PyList(elems) == [Blank EXCEPT !.kind = "list", !.operands = elems]

IsStatement(obj) == obj.kind \in {"Assign", "Switch"}

RECURSIVE Statement_wrap(_)
\* Statement.wrap(obj)
Statement_wrap(obj) ==
    IF obj.kind = "list" THEN
        LET rs == [i \in DOMAIN obj.operands |-> Statement_wrap(obj.operands[i])]
            RECURSIVE Concat(_)
            Concat(i) == IF i = 0 THEN <<>> ELSE Concat(i - 1) \o rs[i].val
        IN  IF FirstErr(rs) # "" THEN Raise(FirstErr(rs))
            ELSE Ok(Concat(Len(obj.operands)))
    ELSE IF IsStatement(obj) THEN Ok(<<obj>>)
    ELSE Raise("TypeError")

RECURSIVE Bin(_)
\* the binary digits of n >= 0
Bin(n) ==
    IF n < 2 THEN <<IF n = 1 THEN "1" ELSE "0">>
    ELSE Bin(n \div 2) \o <<IF n % 2 = 1 THEN "1" ELSE "0">>

\* "{:0{}b}".format(key, width): sign, then zeros up to width, then digits
FormatBin(key, width) ==
    LET sign   == IF key < 0 THEN <<"-">> ELSE <<>>
        digits == Bin(IF key < 0 THEN -key ELSE key)
        pad    == Max(width - Len(sign) - Len(digits), 0)
    IN  sign \o [i \in 1..pad |-> "0"] \o digits

\* self.cases[key] = stmts on an OrderedDict held as a sequence of pairs
DictSet(d, key, stmts) ==
    IF \E i \in DOMAIN d : d[i][1] = key
    THEN [i \in DOMAIN d |-> IF d[i][1] = key THEN <<key, stmts>> ELSE d[i]]
    ELSE Append(d, <<key, stmts>>)

RECURSIVE SwitchCases(_, _, _)
\* the loop of Switch.__init__ over the first i items of cases: the
\* dictionary built, or the exception of the first item that raises
SwitchCases(test, cases, i) ==
    IF i = 0 THEN Ok(<<>>)
    ELSE LET prev  == SwitchCases(test, cases, i - 1)
             key   == cases[i][1]
             stmts == cases[i][2]
             ln    == len(test)
             body  == Statement_wrap(IF stmts.kind = "list" THEN stmts
                                     ELSE PyList(<<stmts>>))
         IN  IF prev.err # "" THEN prev
             ELSE IF IsInt(key) THEN
                 IF ln.err # "" THEN ln
                 ELSE IF body.err # "" THEN body
                 ELSE Ok(DictSet(prev.val, FormatBin(key.value, ln.val), body.val))
             ELSE IF key.kind = "str" THEN
                 IF ln.err # "" THEN ln
                 ELSE IF Len(key.chars) # ln.val THEN Raise("AssertionError")
                 ELSE IF body.err # "" THEN body
                 ELSE Ok(DictSet(prev.val, key.chars, body.val))
             ELSE Raise("TypeError")

\* Switch.__init__(test, cases): cases is the sequence of the dictionary's
\* (key, stmts) items
Switch(test, cases) ==
    LET t == wrap(test)
        c == SwitchCases(test, cases, Len(cases))
    IN  IF t.err # "" THEN t
        ELSE IF c.err # "" THEN c
        ELSE Ok([Blank EXCEPT !.kind = "Switch", !.operands = <<t.val>>,
                              !.cases = c.val])

----------------------------------------------------------------------------
(* ValueKey.  A key is written as the Value it wraps. *)

\* hash(n) of a small int
py_hash(n) == IF n = -1 THEN -2 ELSE n

\* Const.__hash__(self)
Const__hash__(self) == py_hash(self.value)

RECURSIVE ValueKey__hash__(_)
\* ValueKey.__hash__(self).  A hash is written as the sequence of the
\* numbers it is computed from: <<h>> for hash(h), and the hash of the
\* tuple (key, start, end) as the key's hash followed by start and end
ValueKey__hash__(self) ==
    IF self.kind = "Const" THEN Ok(<<Const__hash__(self)>>)
    ELSE IF self.kind = "Signal" THEN Ok(<<py_hash(self.id)>>)
    ELSE IF self.kind = "Slice" THEN
        LET h == ValueKey__hash__(self.operands[1])
        IN  IF h.err # "" THEN h
            ELSE Ok(h.val \o <<py_hash(self.start), py_hash(self.end)>>)
    ELSE Raise("TypeError")

RECURSIVE ValueKey__eq__(_, _)
\* ValueKey.__eq__(self, other), other a ValueKey
ValueKey__eq__(self, other) ==
    IF self.kind # other.kind THEN Ok(FALSE)
    ELSE IF self.kind = "Const" THEN
        LET r == Const__eq__(self, other)
        IN  IF r.err # "" THEN r ELSE Ok(r.val.value = 1)
    ELSE IF self.kind = "Signal" THEN Ok(self.id = other.id)
    ELSE IF self.kind = "Slice" THEN
        LET b == ValueKey__eq__(self.operands[1], other.operands[1])
        IN  IF b.err # "" THEN b
            ELSE Ok(b.val /\ self.start = other.start /\ self.end = other.end)
    ELSE Raise("TypeError")

RECURSIVE ValueKey__lt__(_, _)
\* ValueKey.__lt__(self, other), other a ValueKey: the object returned
ValueKey__lt__(self, other) ==
    IF self.kind # other.kind THEN Ok(PyBool(FALSE))
    ELSE IF self.kind = "Const" THEN Value__lt__(self, other)
    ELSE IF self.kind = "Signal" THEN Ok(PyBool(self.duid < other.duid))
    ELSE IF self.kind = "Slice" THEN
        LET b  == ValueKey__lt__(self.operands[1], other.operands[1])
            bb == py_bool(b.val)
        IN  IF b.err # "" THEN b
            ELSE IF bb.err # "" THEN bb
            ELSE IF ~bb.val THEN b
            ELSE IF ~(self.start < other.start) THEN Ok(PyBool(FALSE))
            ELSE Ok(PyBool(self.end < other.end))
    ELSE Raise("TypeError")

\* the truth value list.sort takes from x < y
ISLT(x, y) ==
    LET r == ValueKey__lt__(x, y)
    IN  IF r.err # "" THEN r ELSE py_bool(r.val)

RECURSIVE count_run(_, _, _)
\* list.sort's count_run: the length of the run that begins the list a,
\* n of whose elements are known to be in it; desc: the run is descending
count_run(a, n, desc) ==
    IF n = Len(a) THEN Ok(n)
    ELSE LET c == ISLT(a[n + 1], a[n])
         IN  IF c.err # "" THEN c
             ELSE IF c.val = desc THEN count_run(a, n + 1, desc)
             ELSE Ok(n)

RECURSIVE binary_pos(_, _, _, _)
\* list.sort's binarysort: where pivot goes among a[l..r-1]
binary_pos(a, pivot, l, r) ==
    IF l >= r THEN Ok(l)
    ELSE LET p == l + ((r - l) \div 2)
             c == ISLT(pivot, a[p])
         IN  IF c.err # "" THEN c
             ELSE IF c.val THEN binary_pos(a, pivot, l, p)
             ELSE binary_pos(a, pivot, p + 1, r)

RECURSIVE binarysort(_, _)
\* list.sort's binarysort: a[1..start-1] is sorted, insert the rest
binarysort(a, start) ==
    IF start > Len(a) THEN Ok(a)
    ELSE LET pos == binary_pos(a, a[start], 1, start)
         IN  IF pos.err # "" THEN pos
             ELSE binarysort(
                    [i \in DOMAIN a |->
                        IF i < pos.val \/ i > start THEN a[i]
                        ELSE IF i = pos.val THEN a[start]
                        ELSE a[i - 1]],
                    start + 1)

\* sorted(a) for a list of ValueKeys shorter than a merge run
sorted(a) ==
    IF Len(a) < 2 THEN Ok(a)
    ELSE LET d == ISLT(a[2], a[1])
         IN  IF d.err # "" THEN d
             ELSE LET run == count_run(a, 2, d.val)
                  IN  IF run.err # "" THEN run
                      ELSE binarysort(
                             [i \in DOMAIN a |->
                                 IF d.val /\ i <= run.val
                                 THEN a[run.val + 1 - i] ELSE a[i]],
                             run.val + 1)

----------------------------------------------------------------------------
(* ValueDict, ValueSet *)

\* self._inner[ValueKey(key)] = value on the dict held as the sequence of
\* its keys in insertion order (the values stored do not reach iteration):
\* a key that hashes and compares equal to one held keeps that one's place
ValueDict__setitem__(inner, key) ==
    LET k == wrap(key)
        h == ValueKey__hash__(k.val)
    IN  IF k.err # "" THEN k
        ELSE IF h.err # "" THEN h
        ELSE IF \E i \in DOMAIN inner :
                    /\ ValueKey__hash__(inner[i]) = h
                    /\ ValueKey__eq__(inner[i], k.val) = Ok(TRUE)
             THEN Ok(inner)
             ELSE Ok(Append(inner, k.val))

RECURSIVE ValueDict(_, _)
\* ValueDict.__init__(pairs) over the first i keys of pairs
ValueDict(keys, i) ==
    IF i = 0 THEN Ok(<<>>)
    ELSE LET prev == ValueDict(keys, i - 1)
         IN  IF prev.err # "" THEN prev
             ELSE ValueDict__setitem__(prev.val, keys[i])

\* ValueDict.__iter__(self): sorted() over the dict, in insertion order
ValueDict__iter__(inner) == sorted(inner)

\* ValueSet.__init__(elements): add() of each; the set holds what the dict
\* of the same insertions holds
ValueSet(elems) == ValueDict(elems, Len(elems))

\* the orders in which iterating the set self._inner may visit its keys:
\* the hash table's order, which follows the addresses of the Signals
SetOrders(inner) ==
    {[i \in DOMAIN inner |-> inner[p[i]]] :
        p \in {q \in [DOMAIN inner -> DOMAIN inner] :
                    \A i \in DOMAIN inner, j \in DOMAIN inner : q[i] = q[j] => i = j}}

\* ValueSet.__iter__(self): the outcomes of sorted() over the set
ValueSet__iter__(inner) == {sorted(order) : order \in SetOrders(inner)}

----------------------------------------------------------------------------
(* The state: DUID's counter, the Signals alive, and the last call made   *)
(* with what it returned or raised.                                        *)

NoCall == [op |-> "", args |-> <<>>, err |-> "", val |-> Blank]

Called(op, args, r) == [op |-> op, args |-> args, err |-> r.err, val |-> r.val]

\* the values of the calls that returned
OkVals(rs) == {r.val : r \in {x \in rs : x.err = ""}}

Init ==
    /\ next_uid = 0
    /\ signals = {}
    /\ result = NoCall

----------------------------------------------------------------------------
(* Shapes: constants of every width and sign, operators over them *)

ConstValues == {-1, 2}

ShapeArgs ==
    {PyNone} \cup {PyInt(n) : n \in -1..MaxWidth}
             \cup {PyTuple(n, s) : n \in 0..MaxWidth, s \in BOOLEAN}

Consts == OkVals({Const(v, bs) : v \in ConstValues, bs \in ShapeArgs})

UnaryOps == {"~", "-", "b"}

BinaryOps == {"+", "-", "*", "&", "^", "|", "=="}

\* what a caller passes as an operand: Values, ints, and something else
CallerOperands ==
    {Const(2, PyNone).val, Const(-1, PyTuple(MaxWidth, TRUE)).val, PyInt(1), PyStr(<<>>)}

MuxSels == {Const(2, PyTuple(MaxWidth, FALSE)).val, Const(-1, PyTuple(1, TRUE)).val}

ShapeExprs ==
    Consts
    \cup OkVals({Operator(op, <<a>>) : op \in UnaryOps, a \in Consts})
    \cup OkVals({Operator(op, <<a, b>>) : op \in BinaryOps, a \in Consts, b \in Consts})
    \cup OkVals({Mux(sel, a, b) : sel \in MuxSels, a \in Consts, b \in Consts})

\* Const(value, bits_sign)
Call_Const ==
    \E v \in ConstValues, bs \in ShapeArgs :
        /\ result' = Called("Const", <<PyInt(v), bs>>, Const(v, bs))
        /\ UNCHANGED <<next_uid, signals>>

\* Operator(op, operands), as the overloaded operators of Value call it
Call_Operator ==
    \/ \E op \in UnaryOps, a \in CallerOperands :
        /\ result' = Called("Operator", <<a>>, Operator(op, <<a>>))
        /\ UNCHANGED <<next_uid, signals>>
    \/ \E op \in BinaryOps, a \in CallerOperands, b \in CallerOperands :
        /\ result' = Called("Operator", <<a, b>>, Operator(op, <<a, b>>))
        /\ UNCHANGED <<next_uid, signals>>

\* Mux(sel, val1, val0)
Call_Mux ==
    \E sel \in CallerOperands, a \in CallerOperands, b \in CallerOperands :
        /\ result' = Called("Mux", <<sel, a, b>>, Mux(sel, a, b))
        /\ UNCHANGED <<next_uid, signals>>

\* v.bits_sign()
Call_bits_sign ==
    \E v \in ShapeExprs :
        /\ result' = Called("bits_sign", <<v>>, bits_sign(v))
        /\ UNCHANGED <<next_uid, signals>>

NextShape == Call_Const \/ Call_Operator \/ Call_Mux \/ Call_bits_sign

SpecShape == Init /\ [][NextShape]_vars

\* the claim's combine(n1, s1, n2, s2), case by case
Combine(n1, s1, n2, s2) ==
    CASE ~s1 /\ ~s2 -> <<Max(n1, n2), FALSE>>
      [] s1 /\ s2   -> <<Max(n1, n2), TRUE>>
      [] ~s1 /\ s2  -> <<Max(n1 + 1, n2), TRUE>>
      [] s1 /\ ~s2  -> <<Max(n1, n2 + 1), TRUE>>

\* the last call asked the shape of a two-operand Operator over two Consts
ShapeOfBinary(ops) ==
    /\ result.op = "bits_sign"
    /\ result.args[1].kind = "Operator"
    /\ result.args[1].op \in ops
    /\ Len(result.args[1].operands) = 2
    /\ \A i \in 1..2 : result.args[1].operands[i].kind = "Const"

\* C1: a two-operand and/or/xor over operands of shapes (n1,s1), (n2,s2) has
\* the shape combine(n1,s1,n2,s2), and a two-operand add/sub has the shape
\* (combine width + 1, combined sign).
C1_BinaryShape ==
    ShapeOfBinary({"&", "|", "^", "+", "-"}) =>
        LET a == result.args[1].operands[1]
            b == result.args[1].operands[2]
            c == Combine(a.nbits, a.signed, b.nbits, b.signed)
        IN  /\ result.err = ""
            /\ result.args[1].op \in {"&", "|", "^"} => result.val = c
            /\ result.args[1].op \in {"+", "-"} => result.val = <<c[1] + 1, c[2]>>

\* the shape of an add of an unsigned and a signed operand, both MaxWidth
\* wide, was asked and returned
C1_Witness ==
    /\ ShapeOfBinary({"+"})
    /\ ~result.args[1].operands[1].signed
    /\ result.args[1].operands[2].signed
    /\ result.args[1].operands[1].nbits = result.args[1].operands[2].nbits
    /\ result.args[1].operands[1].nbits = MaxWidth
    /\ result.err = ""

\* the last call asked the shape of a Mux node
ShapeOfMux ==
    /\ result.op = "bits_sign"
    /\ result.args[1].kind = "Operator"
    /\ result.args[1].op = "m"
    /\ \A i \in 1..3 : result.args[1].operands[i].kind = "Const"

\* C2: requesting the shape of Mux(sel, val1, val0) succeeds and returns the
\* combine of the shapes of val1 and val0, the selector's shape excluded.
C2_MuxShape ==
    ShapeOfMux =>
        LET a == result.args[1].operands[2]
            b == result.args[1].operands[3]
        IN  /\ result.err = ""
            /\ result.val = Combine(a.nbits, a.signed, b.nbits, b.signed)

----------------------------------------------------------------------------
(* Signal construction *)

\* the addresses id() can return
Addrs == 1..MaxSignals

SignalShapeArgs == {PyNone, PyInt(1), PyInt(-1), PyTuple(MaxWidth, TRUE)}

MinArgs == {PyNone, PyInt(-1), PyInt(0)}

MaxArgs == {PyNone, PyInt(1), PyInt(2)}

\* the same with DUID.__init__ leaving the counter where it was
Call_Signal_samecounter ==
    \E shape \in SignalShapeArgs, min \in MinArgs, max \in MaxArgs,
       id \in Addrs \ {sig.id : sig \in signals} :
        /\ next_uid < MaxUid
        /\ Cardinality(signals) < MaxSignals
        /\ LET r == Signal(shape, min, max, next_uid, id)
           IN  /\ result' = Called("Signal", <<shape, min, max>>, r)
               /\ signals' = IF r.err = "" THEN signals \cup {r.val} ELSE signals
        /\ next_uid' = next_uid

\* Signal(bits_sign, min=min, max=max).  DUID.__init__ runs first, so the
\* counter advances even when the constructor then raises.
Call_Signal ==
    \E shape \in SignalShapeArgs, min \in MinArgs, max \in MaxArgs,
       id \in Addrs \ {sig.id : sig \in signals} :
        /\ next_uid < MaxUid
        /\ Cardinality(signals) < MaxSignals
        /\ LET r == Signal(shape, min, max, next_uid, id)
           IN  /\ result' = Called("Signal", <<shape, min, max>>, r)
               /\ signals' = IF r.err = "" THEN signals \cup {r.val} ELSE signals
        /\ next_uid' = next_uid + 1

NextSignal == Call_Signal

SpecSignal == Init /\ [][NextSignal]_vars

\* the last call was Signal(...) with a width or (width, signed) and with
\* min, max or both
SignalWithShapeAndRange ==
    /\ result.op = "Signal"
    /\ result.args[1].kind # "NoneType"
    /\ result.args[2].kind # "NoneType" \/ result.args[3].kind # "NoneType"

\* C7: constructing a Signal with an explicit width or (width, signed)
\* together with min and/or max fails; no Signal is produced.
C7_ShapeAndRangeFails ==
    SignalWithShapeAndRange => result.err # ""

\* After Signal(1) and Signal((2, True)): the state the expression
\* specifications start from.
InitExpr ==
    \E a \in 1..2 :
        LET sigA == Signal(PyInt(1), PyNone, PyNone, 0, a)
            sigB == Signal(PyTuple(2, TRUE), PyNone, PyNone, 1, 3 - a)
        IN  /\ next_uid = 2
            /\ signals = {sigA.val, sigB.val}
            /\ result = Called("Signal", <<PyTuple(2, TRUE), PyNone, PyNone>>, sigB)

----------------------------------------------------------------------------
(* Slicing *)

\* unsigned constants of every width
WidthConsts == OkVals({Const(0, PyTuple(n, FALSE)) : n \in 0..MaxWidth})

\* what a caller slices: Signals, constants, and an int
SliceBases == signals \cup WidthConsts \cup {PyInt(1)}

\* start, end and index arguments: ints about the widths, and None
IndexArgs == {PyInt(i) : i \in -(MaxWidth + 1)..(MaxWidth + 1)} \cup {PyNone}

SliceKeys ==
    IndexArgs
    \cup {PySlice(a, b, step) : a \in IndexArgs, b \in IndexArgs,
                                step \in {PyNone, PyInt(2)}}

\* Slice(value, start, end)
Call_Slice ==
    \E v \in SliceBases, start \in IndexArgs, end \in IndexArgs :
        /\ result' = Called("Slice", <<v, start, end>>, Slice(v, start, end))
        /\ UNCHANGED <<next_uid, signals>>

\* v[key]
Call_getitem ==
    \E v \in SliceBases \ {PyInt(1)}, key \in SliceKeys :
        /\ result' = Called("getitem", <<v, key>>, Value__getitem__(v, key))
        /\ UNCHANGED <<next_uid, signals>>

NextSlice == Call_Slice \/ Call_getitem

SpecSlice == InitExpr /\ [][NextSlice]_vars

\* the last call returned a Slice: from Slice(...) or from v[k] or v[a:b]
SliceBuilt ==
    /\ result.op \in {"Slice", "getitem"}
    /\ result.err = ""
    /\ result.val.kind = "Slice"

\* C3: every Slice constructed, directly or by indexing, has
\* 0 <= start <= end <= len(base), so its width end-start is not negative;
\* a request that would break this raises an index-range error.
C3_SliceBounds ==
    SliceBuilt =>
        /\ 0 <= result.val.start
        /\ result.val.start <= result.val.end
        /\ result.val.end <= bits_sign(result.val.operands[1]).val[1]

----------------------------------------------------------------------------
(* Expressions over the Signals alive *)

ExprLeaves == signals \cup {Const(1, PyNone).val}

\* every node one constructor call builds from the leaves L
Depth1(L) ==
    OkVals({Operator("~", <<a>>) : a \in L})
    \cup OkVals({Operator("+", <<a, b>>) : a \in L, b \in L})
    \cup OkVals({Value__getitem__(a, PyInt(0)) : a \in L})
    \cup OkVals({Part(a, b, PyInt(1)) : a \in L \cup {PyInt(1)}, b \in L})
    \cup OkVals({Cat(<<a, b>>) : a \in L, b \in L})
    \cup OkVals({Cat(<<>>)})
    \cup OkVals({Repl(a, PyInt(2)) : a \in L})

\* every node one constructor call builds from a node of D and a leaf of L
Depth2(D, L) ==
    OkVals({Operator("~", <<e>>) : e \in D})
    \cup OkVals({Operator("+", <<e, a>>) : e \in D, a \in L})
    \cup OkVals({Mux(a, e, a) : e \in D, a \in L})
    \cup OkVals({Value__getitem__(e, PyInt(0)) : e \in D})
    \cup OkVals({Part(e, a, PyInt(1)) : e \in D, a \in L})
    \cup OkVals({Part(a, e, PyInt(1)) : e \in D, a \in L})
    \cup OkVals({Cat(<<e, a>>) : e \in D, a \in L})
    \cup OkVals({Cat(<<a, e>>) : e \in D, a \in L})
    \cup OkVals({Repl(e, PyInt(1)) : e \in D})

Exprs == ExprLeaves \cup Depth1(ExprLeaves) \cup Depth2(Depth1(ExprLeaves), signals)

\* v._rhs_signals()
Call_rhs_signals ==
    \E v \in Exprs :
        /\ result' = Called("_rhs_signals", <<v>>, _rhs_signals(v))
        /\ UNCHANGED <<next_uid, signals>>

NextRhs == Call_rhs_signals

SpecRhs == InitExpr /\ [][NextRhs]_vars

RECURSIVE SignalsIn(_)
\* the Signals that occur anywhere in v
SignalsIn(v) ==
    IF v.kind = "Signal" THEN {v}
    ELSE UNION {SignalsIn(v.operands[i]) : i \in DOMAIN v.operands}

\* C4: requesting the right-hand signal set of a Value built from Const,
\* Signal, Operator, Slice, Part, Cat and Repl succeeds and returns exactly
\* the Signals occurring in its sub-expressions (the base of a Repl and both
\* the base and the offset of a Part included).
C4_RhsSignals ==
    result.op = "_rhs_signals" =>
        /\ result.err = ""
        /\ result.val = SignalsIn(result.args[1])

----------------------------------------------------------------------------
(* Truth value of a comparison *)

BoolLeaves ==
    signals \cup {Const(1, PyNone).val, Const(2, PyNone).val,
                  Const(1, PyTuple(MaxWidth, FALSE)).val}

BoolOperands ==
    BoolLeaves \cup Depth1({sig \in signals : sig.duid = 1} \cup {Const(1, PyNone).val})

\* bool(a == b)
Call_bool_eq ==
    \E a \in BoolOperands, b \in BoolOperands :
        /\ LET e == py_eq(a, b)
           IN  result' = Called("bool_eq", <<a, b>>,
                                IF e.err # "" THEN e ELSE py_bool(e.val))
        /\ UNCHANGED <<next_uid, signals>>

\* bool(v)
Call_bool ==
    \E v \in BoolOperands \cup OkVals({Value__eq__(a, b) : a \in BoolLeaves, b \in BoolLeaves}) :
        /\ result' = Called("bool", <<v>>, py_bool(v))
        /\ UNCHANGED <<next_uid, signals>>

NextBool == Call_bool_eq \/ Call_bool

SpecBool == InitExpr /\ [][NextBool]_vars

\* C5: boolifying a == b follows the special-case rule for either operand
\* order: two Consts give a.value == b.value; two Signals give true only for
\* the same instance; one Const and one Signal give false; every other
\* boolification of a Value fails with the ambiguous-truth-value TypeError.
C5_BoolOfEq ==
    /\ result.op = "bool_eq" =>
        LET a == result.args[1]
            b == result.args[2]
        IN  IF a.kind = "Const" /\ b.kind = "Const"
            THEN result.err = "" /\ result.val = (a.value = b.value)
            ELSE IF a.kind = "Signal" /\ b.kind = "Signal"
            THEN result.err = "" /\ result.val = (a = b)
            ELSE IF {a.kind, b.kind} = {"Const", "Signal"}
            THEN result.err = "" /\ result.val = FALSE
            ELSE result.err = "TypeError"
    /\ (result.op = "bool" /\ ~(result.args[1].kind = "Operator" /\ result.args[1].op = "=="))
        => result.err = "TypeError"

----------------------------------------------------------------------------
(* Assign *)

\* every node one constructor call builds from a node of D and a leaf of L,
\* assignable variants and others
AssignNodes(D, L) ==
    OkVals({Slice(e, PyInt(0), PyInt(1)) : e \in D})
    \cup OkVals({Part(e, a, PyInt(1)) : e \in D, a \in L})
    \cup OkVals({Cat(<<e, a>>) : e \in D, a \in L})
    \cup OkVals({Cat(<<a, e>>) : e \in D, a \in L})
    \cup OkVals({Repl(e, PyInt(2)) : e \in D})
    \cup OkVals({Operator("~", <<e>>) : e \in D})

\* the left-hand sides tried: the leaves, and the nodes one and two
\* constructor calls build from them
AssignTargets ==
    ExprLeaves
    \cup AssignNodes(AssignNodes(ExprLeaves, ExprLeaves) \cup ExprLeaves,
                     {sig \in signals : sig.duid = 1})

\* Assign(lhs, rhs)
Call_Assign ==
    \E lhs \in AssignTargets \cup {PyInt(1), PyNone}, rhs \in {PyInt(0)} :
        /\ result' = Called("Assign", <<lhs, rhs>>, Assign(lhs, rhs))
        /\ UNCHANGED <<next_uid, signals>>

\* stmt._lhs_signals() of an Assign that was constructed
Call_Assign_lhs_signals ==
    \E lhs \in AssignTargets \cup {PyInt(1)} :
        LET stmt == Assign(lhs, PyInt(0))
        IN  /\ stmt.err = ""
            /\ result' = Called("Assign._lhs_signals", <<stmt.val>>,
                                 Assign_lhs_signals(stmt.val))
            /\ UNCHANGED <<next_uid, signals>>

NextAssign == Call_Assign \/ Call_Assign_lhs_signals

SpecAssign == InitExpr /\ [][NextAssign]_vars

RECURSIVE Assignable(_)
\* v is a Signal, a Slice or Part of an assignable Value, or a Cat whose
\* operands are all assignable
Assignable(v) ==
    \/ v.kind = "Signal"
    \/ v.kind \in {"Slice", "Part"} /\ Assignable(v.operands[1])
    \/ v.kind = "Cat" /\ \A i \in DOMAIN v.operands : Assignable(v.operands[i])

\* C8 as stated: Assign(lhs, rhs) fails at construction whenever lhs is not
\* assignable; no Assign with a non-assignable left-hand side is produced.
C8_AssignRejectsAtConstruction ==
    (result.op = "Assign" /\ result.err = "") => Assignable(result.val.operands[1])

\* C8 as amended: Assign(lhs, rhs) is constructed for every Value or int
\* lhs, and requesting the statement's left-hand signal set fails whenever
\* lhs is not assignable.
C8_LhsSignalsRejects ==
    /\ (result.op = "Assign" /\ (IsValue(result.args[1]) \/ IsInt(result.args[1])))
        => result.err = ""
    /\ (result.op = "Assign._lhs_signals" /\ ~Assignable(result.args[1].operands[1]))
        => result.err # ""

\* the left-hand signal set of an Assign to a Repl was requested and refused
C8_Witness ==
    /\ result.op = "Assign._lhs_signals"
    /\ result.args[1].operands[1].kind = "Repl"
    /\ result.err = "TypeError"

----------------------------------------------------------------------------
(* Switch *)

\* the tests: Signals, constants of every width, and an int
SwitchTests == signals \cup WidthConsts \cup {PyInt(1)}

\* strings of one repeated character, up to MaxWidth long
CaseStrings ==
    {PyStr([i \in 1..n |-> c]) : n \in 0..MaxWidth, c \in {"0", "1", "x"}}

CaseKeys ==
    {PyInt(-1), PyInt(0), PyInt(1), PyInt(2^MaxWidth - 1), PyInt(2^MaxWidth)}
    \cup {PyBool(FALSE), PyBool(TRUE)}
    \cup CaseStrings
    \cup {PyNone}

\* case bodies: a list of statements, one statement, and no statement at all
CaseBodies ==
    {PyList(<<>>), Assign(Const(0, PyTuple(1, FALSE)).val, PyInt(0)).val, PyInt(0)}

\* k1 == k2 as a dictionary compares keys: True == 1 and False == 0
SameDictKey(k1, k2) ==
    IF IsInt(k1) /\ IsInt(k2) THEN k1.value = k2.value ELSE k1 = k2

\* the items of the dictionaries passed as cases: one or two keys
CaseDicts ==
    {<<<<k, b>>>> : k \in CaseKeys, b \in CaseBodies}
    \cup UNION {{<<<<k1, PyList(<<>>)>>, <<k2, b>>>> :
                    b \in CaseBodies \ {PyInt(0)},
                    k2 \in {k \in {PyInt(1), PyInt(2), PyStr(<<"1">>)} :
                              ~SameDictKey(k1, k)}} : k1 \in CaseKeys}

\* Switch(test, cases)
Call_Switch ==
    \E test \in SwitchTests, cases \in CaseDicts :
        /\ result' = Called("Switch", <<test, PyList([i \in DOMAIN cases |-> cases[i][1]])>>,
                            Switch(test, cases))
        /\ UNCHANGED <<next_uid, signals>>

NextSwitch == Call_Switch

SpecSwitch == InitExpr /\ [][NextSwitch]_vars

\* C6: in every Switch constructed, each case key stored is a string over
\* {0,1} as long as len(test): int and bool keys are rendered to that
\* length, and a string key of another length makes construction fail.
C6_CaseKeys ==
    (result.op = "Switch" /\ result.err = "") =>
        \A i \in DOMAIN result.val.cases :
            LET key == result.val.cases[i][1]
            IN  /\ Len(key) = bits_sign(result.val.operands[1]).val[1]
                /\ \A j \in DOMAIN key : key[j] \in {"0", "1"}

----------------------------------------------------------------------------
(* Structural keys *)

KeyConsts ==
    {Const(1, PyTuple(1, FALSE)).val, Const(1, PyTuple(MaxWidth, FALSE)).val,
     Const(2, PyTuple(MaxWidth, FALSE)).val, Const(-1, PyTuple(MaxWidth, TRUE)).val}

KeyLeaves == signals \cup KeyConsts

KeySlices(bases) ==
    OkVals({Slice(v, PyInt(start), PyInt(end)) : v \in bases, start \in 0..1, end \in 1..2})

\* Values of a variant ValueKey does not support, alone and sliced
NotKeys == OkVals({Operator("~", <<sig>>) : sig \in signals})

\* the Values wrapped into keys: the leaves, slices of Signals and of two
\* constants of one value, slices of slices, and unsupported variants
Keys ==
    KeyLeaves
    \cup KeySlices(signals \cup {c \in KeyConsts : c.value = 1})
    \cup KeySlices(KeySlices({sig \in signals : sig.duid = 1}))
    \cup NotKeys
    \cup KeySlices(NotKeys)

\* ValueKey(a) == ValueKey(b)
Call_ValueKey_eq ==
    \E a \in Keys, b \in Keys :
        /\ result' = Called("ValueKey.__eq__", <<a, b>>, ValueKey__eq__(a, b))
        /\ UNCHANGED <<next_uid, signals>>

\* hash(ValueKey(a))
Call_ValueKey_hash ==
    \E a \in Keys :
        /\ result' = Called("ValueKey.__hash__", <<a>>, ValueKey__hash__(a))
        /\ UNCHANGED <<next_uid, signals>>

\* ValueKey(a) < ValueKey(b)
Call_ValueKey_lt ==
    \E a \in Keys, b \in Keys :
        /\ result' = Called("ValueKey.__lt__", <<a, b>>, ValueKey__lt__(a, b))
        /\ UNCHANGED <<next_uid, signals>>

\* sorted([ValueKey(a), ValueKey(b), ValueKey(c)]), and of shorter lists
Call_sorted ==
    \E keys \in {<<>>} \cup {<<a>> : a \in KeyLeaves}
                \cup {<<a, b>> : a \in KeyLeaves, b \in KeyLeaves}
                \cup {<<a, b, c>> : a \in KeyConsts, b \in KeyConsts, c \in KeyConsts}
                \cup {<<a, b, c>> : a \in signals, b \in signals, c \in signals} :
        /\ result' = Called("sorted", keys, sorted(keys))
        /\ UNCHANGED <<next_uid, signals>>

NextKey == Call_ValueKey_eq \/ Call_ValueKey_hash \/ Call_ValueKey_lt \/ Call_sorted

SpecKey == InitExpr /\ [][NextKey]_vars

RECURSIVE Keyable(_)
\* a key over Const, Signal and Slice only, the variants ValueKey supports
Keyable(v) ==
    \/ v.kind \in {"Const", "Signal"}
    \/ v.kind = "Slice" /\ Keyable(v.operands[1])

RECURSIVE SameKey(_, _)
\* the claim's key equality, variant by variant
SameKey(a, b) ==
    /\ a.kind = b.kind
    /\ a.kind = "Const" => a.value = b.value
    /\ a.kind = "Signal" => a = b
    /\ a.kind = "Slice" =>
        /\ SameKey(a.operands[1], b.operands[1])
        /\ a.start = b.start
        /\ a.end = b.end

\* C9: two Const keys are equal iff their values are equal, whatever the
\* widths and signs; two Signal keys iff they wrap the same Signal; two
\* Slice keys iff their base keys are equal and start and end are equal;
\* keys of different variants are never equal; equal keys have equal hashes.
C9_KeyEquality ==
    result.op = "ValueKey.__eq__" =>
        LET a == result.args[1]
            b == result.args[2]
        IN  /\ a.kind # b.kind => result.err = "" /\ result.val = FALSE
            /\ (Keyable(a) /\ Keyable(b)) =>
                /\ result.err = ""
                /\ result.val = SameKey(a, b)
                /\ result.val => ValueKey__hash__(a) = ValueKey__hash__(b)

\* two Const keys of one value and two widths were compared, and are equal
C9_Witness ==
    /\ result.op = "ValueKey.__eq__"
    /\ result.args[1].kind = "Const"
    /\ result.args[2].kind = "Const"
    /\ result.args[1].nbits # result.args[2].nbits
    /\ result.err = ""
    /\ result.val = TRUE

\* C10: the less-than of two Const keys returns the boolean
\* a.value < b.value, so that Const keys of distinct values sort into
\* ascending value order without an error.
C10_ConstKeyOrder ==
    /\ (/\ result.op = "ValueKey.__lt__"
        /\ result.args[1].kind = "Const"
        /\ result.args[2].kind = "Const")
        => /\ result.err = ""
           /\ result.val = PyBool(result.args[1].value < result.args[2].value)
    /\ (/\ result.op = "sorted"
        /\ \A i \in DOMAIN result.args : result.args[i].kind = "Const"
        /\ \A i, j \in DOMAIN result.args :
              i # j => result.args[i].value # result.args[j].value)
        => /\ result.err = ""
           /\ \A i, j \in DOMAIN result.val :
                 i < j => result.val[i].value < result.val[j].value

----------------------------------------------------------------------------
(* Signal identity *)

\* ValueKey(a) < ValueKey(b) for two Signals alive
Call_ValueKey_lt_signals ==
    \E a \in signals, b \in signals :
        /\ result' = Called("ValueKey.__lt__", <<a, b>>, ValueKey__lt__(a, b))
        /\ UNCHANGED <<next_uid, signals>>

NextDuid == Call_Signal \/ Call_Const \/ Call_ValueKey_lt_signals

SpecDuid == Init /\ [][NextDuid]_vars

\* C11: in every step, each Signal alive stays as it is (its ID included),
\* the IDs of the Signals alive are pairwise distinct, and a Signal the step
\* constructs has an ID strictly greater than that of every Signal
\* constructed before it, so that the key of the earlier one is less than
\* the key of the later one and not the reverse.
C11_SignalIds ==
    [][/\ signals \subseteq signals'
       /\ \A s \in signals', t \in signals' : s.duid = t.duid => s = t
       /\ \A s \in signals' \ signals : \A t \in signals :
            /\ t.duid < s.duid
            /\ ValueKey__lt__(t, s) = Ok(PyBool(TRUE))
            /\ ValueKey__lt__(s, t) = Ok(PyBool(FALSE))]_vars

\* two Signals are alive, a failed construction lies between them, and
\* their keys were compared
C11_Witness ==
    /\ Cardinality(signals) = 2
    /\ \E s \in signals, t \in signals : s.duid > t.duid + 1
    /\ result.op = "ValueKey.__lt__"
    /\ result.val = PyBool(TRUE)

----------------------------------------------------------------------------
(* Iterating a ValueDict or ValueSet *)

\* the keys inserted: the Signals, two constants, and two slices of the
\* wider Signal
DictKeys ==
    signals \cup {Const(1, PyNone).val, Const(2, PyNone).val}
            \cup KeySlices({sig \in signals : sig.duid = 1})

\* the insertions made, in order
Insertions ==
    {<<>>} \cup {<<a>> : a \in DictKeys} \cup {<<a, b>> : a \in DictKeys, b \in DictKeys}
           \cup {<<a, b, c>> : a \in signals, b \in DictKeys, c \in DictKeys}

\* list(ValueDict((k, 0) for k in keys))
Call_ValueDict_iter ==
    \E keys \in Insertions :
        LET d == ValueDict(keys, Len(keys))
        IN  /\ d.err = ""
            /\ result' = Called("ValueDict.__iter__", keys, ValueDict__iter__(d.val))
            /\ UNCHANGED <<next_uid, signals>>

\* list(ValueSet(keys))
Call_ValueSet_iter ==
    \E keys \in Insertions :
        LET d == ValueSet(keys)
        IN  /\ d.err = ""
            /\ \E r \in ValueSet__iter__(d.val) :
                    result' = Called("ValueSet.__iter__", keys, r)
            /\ UNCHANGED <<next_uid, signals>>

NextDict == Call_ValueDict_iter \/ Call_ValueSet_iter

SpecDict == InitExpr /\ [][NextDict]_vars

\* the keys the container holds after the insertions
Held(keys) == {ValueSet(keys).val[i] : i \in DOMAIN ValueSet(keys).val}

\* C12: iterating a ValueDict or ValueSet of keyable Values succeeds, and
\* every sequence of insertions that leaves the container holding the same
\* keys iterates in the same order.
C12_IterationOrder ==
    result.op \in {"ValueDict.__iter__", "ValueSet.__iter__"} =>
        /\ result.err = ""
        /\ \A keys \in Insertions : Held(keys) = Held(result.args) =>
                /\ ValueDict__iter__(ValueDict(keys, Len(keys)).val).val = result.val
                /\ \A r \in ValueSet__iter__(ValueSet(keys).val) : r.val = result.val

----------------------------------------------------------------------------
(* Signal.like *)

ResetArgs == {PyInt(0), PyInt(1), Const(1, PyNone).val}

AttrsArgs == {<<>>, <<"keep">>}

\* Signal(shape, reset=reset, reset_less=reset_less, attrs=attrs)
Call_Signal_reset ==
    \E shape \in {PyInt(1), PyTuple(MaxWidth, TRUE)}, reset \in ResetArgs,
       reset_less \in BOOLEAN, attrs \in AttrsArgs,
       id \in Addrs \ {sig.id : sig \in signals} :
        /\ next_uid < MaxUid
        /\ Cardinality(signals) < MaxSignals
        /\ LET r == Signal_kw(shape, reset, reset_less, attrs, next_uid, id)
           IN  /\ result' = Called("Signal", <<shape, reset, PyBool(reset_less)>>, r)
               /\ signals' = IF r.err = "" THEN signals \cup {r.val} ELSE signals
        /\ next_uid' = next_uid + 1

\* what is cloned: Signals, a constant, an int, a comparison, and None
LikeOthers ==
    signals \cup {Const(2, PyNone).val, PyInt(1), PyNone}
            \cup OkVals({Operator("==", <<sig, PyInt(0)>>) : sig \in signals})

\* the overrides passed
LikeKwargs ==
    {PyDict(<<>>), PyDict(<<<<"reset", PyInt(1)>>>>),
     PyDict(<<<<"reset_less", PyBool(TRUE)>>>>),
     PyDict(<<<<"bits_sign", PyInt(MaxWidth)>>>>),
     PyDict(<<<<"bits_sign", PyInt(MaxWidth)>>, <<"reset", PyInt(1)>>,
              <<"reset_less", PyBool(TRUE)>>>>)}

\* Signal.like(other, **kwargs).  DUID.__init__ runs when cls(**kw) is
\* reached, not when like raises before it.
Call_Signal_like ==
    \E other \in LikeOthers, kwargs \in LikeKwargs,
       id \in Addrs \ {sig.id : sig \in signals} :
        /\ next_uid < MaxUid
        /\ Cardinality(signals) < MaxSignals
        /\ LET r == Signal_like(other, kwargs, next_uid, id)
           IN  /\ result' = Called("Signal.like", <<other, kwargs>>, r)
               /\ signals' = IF r.err = "" THEN signals \cup {r.val} ELSE signals
        /\ next_uid' = IF Signal_like_kw(other, kwargs).err = ""
                       THEN next_uid + 1 ELSE next_uid

NextLike == Call_Signal_reset \/ Call_Signal_like

SpecLike == Init /\ [][NextLike]_vars

\* C13: Signal.like(other, **overrides) of a Value succeeds; the new Signal
\* has other's (width, signed); when other is a Signal it also has other's
\* reset value, reset-less flag and attributes; an override passed takes
\* the place of the cloned field.
C13_Like ==
    (result.op = "Signal.like" /\ IsValue(result.args[1])) =>
        LET other == result.args[1]
            kw    == result.args[2]
            new   == result.val
        IN  /\ result.err = ""
            /\ IF KwHas(kw, "bits_sign")
               THEN <<new.nbits, new.signed>> = <<KwGet(kw, "bits_sign").value, FALSE>>
               ELSE Ok(<<new.nbits, new.signed>>) = bits_sign(other)
            /\ IF KwHas(kw, "reset") THEN new.reset = KwGet(kw, "reset").value
               ELSE other.kind = "Signal" => new.reset = other.reset
            /\ IF KwHas(kw, "reset_less")
               THEN new.reset_less = (KwGet(kw, "reset_less").value = 1)
               ELSE other.kind = "Signal" => new.reset_less = other.reset_less
            /\ other.kind = "Signal" => new.attrs = other.attrs

----------------------------------------------------------------------------
(* Shape of a boolify node *)

\* the Values converted: Signals, constants of every width, and the nodes
\* one constructor call builds from the leaves
BoolifyOperands == ExprLeaves \cup WidthConsts \cup Depth1(ExprLeaves)

\* v.bool()
Call_Value_bool ==
    \E v \in BoolifyOperands :
        /\ result' = Called("Value.bool", <<v>>, Value_bool(v))
        /\ UNCHANGED <<next_uid, signals>>

\* v.bool().bits_sign()
Call_Value_bool_bits_sign ==
    \E v \in BoolifyOperands :
        /\ result' = Called("Value.bool.bits_sign", <<v>>, bits_sign(Value_bool(v).val))
        /\ UNCHANGED <<next_uid, signals>>

NextBoolify == Call_Value_bool \/ Call_Value_bool_bits_sign

SpecBoolify == InitExpr /\ [][NextBoolify]_vars

\* C14: for every Value v with a defined shape, requesting the shape of
\* v.bool() succeeds and returns (1, unsigned).
C14_BoolifyShape ==
    (result.op = "Value.bool.bits_sign" /\ bits_sign(result.args[1]).err = "") =>
        /\ result.err = ""
        /\ result.val = <<1, FALSE>>

----------------------------------------------------------------------------
(* Every call, from the state where no Signal exists yet *)

Next ==
    \/ Call_Signal
    \/ Call_Const
    \/ Call_Operator
    \/ Call_Mux
    \/ Call_bits_sign
    \/ Call_Slice
    \/ Call_getitem
    \/ Call_rhs_signals
    \/ Call_bool_eq
    \/ Call_bool
    \/ Call_Assign
    \/ Call_Assign_lhs_signals
    \/ Call_Switch
    \/ Call_ValueKey_eq
    \/ Call_ValueKey_hash
    \/ Call_ValueKey_lt
    \/ Call_sorted
    \/ Call_ValueKey_lt_signals
    \/ Call_ValueDict_iter
    \/ Call_ValueSet_iter
    \/ Call_Signal_reset
    \/ Call_Signal_like
    \/ Call_Value_bool
    \/ Call_Value_bool_bits_sign

Spec == Init /\ [][Next]_vars

====
